---- MODULE Spec2Model ----
(***************************************************************************)
(* The cyclical asynchronous pipeline of examples/proto/src/main.rs:      *)
(* the driver loop of main, the five stage functions, the device's        *)
(* out-of-order execution of the enqueued commands, the CPU pool running  *)
(* the mapped-write and mapped-verify continuations, the sync channel and *)
(* the completion thread.                                                  *)
(***************************************************************************)
EXTENDS Integers, Sequences, FiniteSets, TLC

\* Number of loop iterations explored (the source runs 10).
TASK_ITERS == 3

MAX_CONCURRENT_TASK_COUNT == 2

\* How many runtime calls may fail, or kernels leave wrong values, in one run.
MaxFaults == 1

\* Elements per buffer explored (the source has 1 << 25).
WORK_SIZE == 2

\* Value which the kernel sums with the values of the input buffer.
SCALAR_ADDEND == 100

\* The value fill_junk fills the source buffer with.
FillVal == -999

\* The write value and the expected sum main passes to the stages.
WriteVal == 50
CorrectVal == 150

\* Element indices of a buffer or of a mapped view.
Index == 0 .. (WORK_SIZE - 1)

\* Option::None for an event slot or a wait event.
None == <<>>

\* The completion thread holds no task.
NoTask == -2

\* The message `None` sent over the channel after the loop.
NoneMsg == -1

Iters == 0 .. (TASK_ITERS - 1)

\* The commands a loop iteration enqueues; each has one event.
Stages == {"Fill", "WMap", "WUnmap", "RVI", "Marker", "Kernel", "VMap", "VUnmap"}

\* An event is named by the stage and the iteration that created it.
Events == Stages \X Iters

\* Commands that occupy the device for a while (fill, kernel, buffer read).
Timed == {"Fill", "Kernel", "RVI"}

VARIABLES
    driverPc,                \* position of main
    task_iter,               \* loop variable of main
    fill_event,              \* main's event slots
    write_init_unmap_event,
    kernel_event,
    verify_add_unmap_event,
    kernel_wait_list,        \* main's EventList
    status,                  \* per event: unset, created, queued, running, complete
    waitList,                \* per command: the events it was enqueued to wait on
    starting,                \* iterations whose "Kernel starting" callback has run
    spawned,                 \* iterations whose joined future is on the CPU pool
    writeSt,                 \* per iteration: the mapped-write continuation
    verifySt,                \* per iteration: the mapped-verify continuation
    chan,                    \* items buffered in the sync channel
    consumerPc,              \* position of the completion thread
    curTask,                 \* the task the completion thread holds
    task_i,                  \* the completion thread's counter
    reported,                \* "Task n complete" lines printed so far
    faults,                  \* runtime calls that have failed so far
    src_buf,                 \* contents of the source buffer
    dst_buf,                 \* contents of the destination buffer
    writeRes,                \* per iteration: what the mapped-write future resolved to
    verifyRes,               \* per iteration: what the mapped-verify future resolved to
    examined,                \* per iteration: elements the verify loop has looked at
    abort,                   \* why and where main panicked: <<cause, position>>
    cbOn,                    \* per callback: the event set_callback registered it on
    cbRuns,                  \* per callback: how many times it has been called
    call                     \* raw/functions.rs: the support function called, its arguments and result

vars == <<driverPc, task_iter, fill_event, write_init_unmap_event, kernel_event,
          verify_add_unmap_event, kernel_wait_list, status, waitList, starting,
          spawned, writeSt, verifySt, chan, consumerPc, curTask, task_i, reported, faults,
          src_buf, dst_buf, writeRes, verifyRes, examined, abort, cbOn, cbRuns, call>>

driverVars == <<driverPc, task_iter, fill_event, write_init_unmap_event, kernel_event,
                verify_add_unmap_event, kernel_wait_list, abort>>
consumerVars == <<consumerPc, curTask, task_i, reported>>
poolVars == <<spawned, writeSt, verifySt, faults, writeRes, verifyRes, examined>>
bufVars == <<src_buf, dst_buf>>
cbVars == <<cbOn, cbRuns>>
rawVars == <<call>>

----------------------------------------------------------------------------
(* Events *)

\* Lifecycle state of an event as the runtime reports it.
SignalState(e) ==
    IF status[e] = "unset" THEN "Unset"
    ELSE IF status[e] = "complete" THEN "Complete"
    ELSE "Pending"

IsComplete(e) == status[e] = "complete"

\* The command has begun executing (or has finished).
Started(e) == status[e] \in {"running", "complete"}

RECURSIVE SeqToSet(_)
SeqToSet(s) == IF s = <<>> THEN {} ELSE {Head(s)} \cup SeqToSet(Tail(s))

\* A command may begin once every event of its wait list is complete.
Ready(e) == \A w \in SeqToSet(waitList[e]) : IsComplete(w)

\* The main thread is alive: a panic of main, or its return, ends the process.
Alive == driverPc \notin {"panicked", "done"}

----------------------------------------------------------------------------
(* Stage functions *)

\* .ewait_opt(wait_event): an absent event adds nothing to the wait list.
EwaitOpt(wait_event) == IF wait_event = None THEN <<>> ELSE <<wait_event>>

\* The wait events main hands to the stage functions.
FillWaitArgVerifyUnmap == verify_add_unmap_event
FillWaitArgStale == fill_event
FillWaitArg == kernel_event
WriteWaitArg == fill_event
ReadWaitArg == kernel_event
VerifyWaitArgFill == fill_event
VerifyWaitArg == kernel_event

\* The wait list of the fill command.
FillWaitsNone(wait_event) == <<>>
FillWaits(wait_event) == EwaitOpt(wait_event)

KernelWaitListNoClear(verify_ev, write_ev) ==
    kernel_wait_list \o
    (IF verify_ev = None THEN <<>> ELSE <<verify_ev>>) \o
    (IF write_ev = None THEN <<>> ELSE <<write_ev>>)

KernelWaitListWriteOnly(verify_ev, write_ev) ==
    IF write_ev = None THEN <<>> ELSE <<write_ev>>

\* kernel_add: clear the list, push the previous read-unmap event, then the
\* current write-unmap event, each if set.
KernelWaitList(verify_ev, write_ev) ==
    (IF verify_ev = None THEN <<>> ELSE <<verify_ev>>) \o
    (IF write_ev = None THEN <<>> ELSE <<write_ev>>)

\* Event::set_callback(...).unwrap() succeeds on an event bound to a command.
CallbackOk(e) == status[e] # "unset"

NewEventOfFirstIter(stage, it) == <<stage, 0>>
NewEventOfPrevIter(stage, it) == <<stage, IF it > 0 THEN it - 1 ELSE 0>>

\* Event::empty(), or the event create_unmap_event makes: a new event for
\* every call of a stage function.
NewEvent(stage, it) == <<stage, it>>

SetCallbackBeforeEnq(atEntry, afterEnq) == atEntry

\* The state of a stage's own event at the time the stage calls set_callback
\* on it: every stage does so after the call that binds the event.
StatusAtSetCallback(atEntry, afterEnq) == afterEnq

FillStartingDirectAlways(wait_event) == TRUE

\* fill_junk calls _print_starting itself when it has no event to wait on.
FillStartingDirect(wait_event) == wait_event = None

\* The callbacks the stage functions register, each named by the function
\* and the iteration it is given as user data.  kernel_add's "Kernel
\* starting", on the marker, is followed by the variable starting instead.
Callbacks ==
    {"fill_starting", "fill_complete", "write_complete", "verify_init_starting",
     "kernel_complete", "verify_add_starting"} \X Iters

\* set_callback(c) on event ev has returned Ok.
Register(on, c, ev) == [on EXCEPT ![c] = ev]

\* main panics: cause, and the position it was at.
Panic(cause) ==
    /\ driverPc' = "panicked"
    /\ abort' = <<cause, driverPc>>

fill_junk_blocking ==
    /\ driverPc = "fill"
    /\ kernel_event # None => IsComplete(kernel_event)
    /\ LET e == NewEvent("Fill", task_iter)
           wait_event == FillWaitArg
           on_start == <<"fill_starting", task_iter>>
           on_complete == <<"fill_complete", task_iter>>
           started == IF wait_event = None THEN cbOn
                      ELSE Register(cbOn, on_start, wait_event) IN
       IF wait_event # None /\ ~CallbackOk(wait_event)
       THEN /\ Panic("signal_not_bound")
            /\ UNCHANGED <<fill_event, status, waitList, cbVars>>
       ELSE /\ fill_event' = e
            /\ status' = [status EXCEPT ![e] = "queued"]
            /\ waitList' = [waitList EXCEPT ![e] = FillWaits(wait_event)]
            /\ cbRuns' = IF FillStartingDirect(wait_event)
                         THEN [cbRuns EXCEPT ![on_start] = @ + 1] ELSE cbRuns
            /\ IF StatusAtSetCallback(status[e], "queued") = "unset"
               THEN /\ Panic("signal_not_bound")
                    /\ cbOn' = started
               ELSE /\ driverPc' = "write_init"
                    /\ cbOn' = Register(started, on_complete, e)
                    /\ UNCHANGED abort
    /\ UNCHANGED <<rawVars, bufVars, task_iter, write_init_unmap_event, kernel_event,
                   verify_add_unmap_event, kernel_wait_list, starting,
                   poolVars, chan, consumerVars>>

\* 0. Fill-Junk
fill_junk ==
    /\ driverPc = "fill"
    /\ LET e == NewEvent("Fill", task_iter)
           wait_event == FillWaitArg
           on_start == <<"fill_starting", task_iter>>
           on_complete == <<"fill_complete", task_iter>>
           started == IF wait_event = None THEN cbOn
                      ELSE Register(cbOn, on_start, wait_event) IN
       IF wait_event # None /\ ~CallbackOk(wait_event)
       THEN /\ Panic("signal_not_bound")
            /\ UNCHANGED <<fill_event, status, waitList, cbVars>>
       ELSE /\ fill_event' = e
            /\ status' = [status EXCEPT ![e] = "queued"]
            /\ waitList' = [waitList EXCEPT ![e] = FillWaits(wait_event)]
            /\ cbRuns' = IF FillStartingDirect(wait_event)
                         THEN [cbRuns EXCEPT ![on_start] = @ + 1] ELSE cbRuns
            /\ IF StatusAtSetCallback(status[e], "queued") = "unset"
               THEN /\ Panic("signal_not_bound")
                    /\ cbOn' = started
               ELSE /\ driverPc' = "write_init"
                    /\ cbOn' = Register(started, on_complete, e)
                    /\ UNCHANGED abort
    /\ UNCHANGED <<rawVars, bufVars, task_iter, write_init_unmap_event, kernel_event,
                   verify_add_unmap_event, kernel_wait_list, starting,
                   poolVars, chan, consumerVars>>

\* 1. Map-Write-Init
map_write_init ==
    /\ driverPc = "write_init"
    /\ LET m == NewEvent("WMap", task_iter)
           u == NewEvent("WUnmap", task_iter)
           on_complete == <<"write_complete", task_iter>> IN
       /\ status' = [status EXCEPT ![m] = "queued", ![u] = "created"]
       /\ waitList' = [waitList EXCEPT ![m] = EwaitOpt(WriteWaitArg)]
       /\ write_init_unmap_event' = u
       /\ IF StatusAtSetCallback(status[u], "created") = "unset"
          THEN /\ Panic("signal_not_bound")
               /\ UNCHANGED cbOn
          ELSE /\ driverPc' = "verify_init"
               /\ cbOn' = Register(cbOn, on_complete, u)
               /\ UNCHANGED abort
    /\ UNCHANGED <<rawVars, bufVars, cbRuns, task_iter, fill_event, kernel_event,
                   verify_add_unmap_event, kernel_wait_list, starting, poolVars,
                   chan, consumerVars>>

\* 2. Read-Verify-Init
read_verify_init ==
    /\ driverPc = "verify_init"
    /\ LET r == NewEvent("RVI", task_iter)
           wait_event == ReadWaitArg
           on_start == <<"verify_init_starting", task_iter>> IN
       IF wait_event = None
       THEN /\ Panic("unwrap_none")
            /\ UNCHANGED <<status, waitList, cbOn>>
       ELSE IF ~CallbackOk(wait_event)
       THEN /\ Panic("signal_not_bound")
            /\ UNCHANGED <<status, waitList, cbOn>>
       ELSE /\ cbOn' = Register(cbOn, on_start, wait_event)
            /\ status' = [status EXCEPT ![r] = "queued"]
            /\ waitList' = [waitList EXCEPT ![r] = EwaitOpt(wait_event)]
            /\ driverPc' = "kernel"
            /\ UNCHANGED abort
    /\ UNCHANGED <<rawVars, bufVars, cbRuns, task_iter, fill_event, write_init_unmap_event,
                   kernel_event, verify_add_unmap_event, kernel_wait_list, starting,
                   poolVars, chan, consumerVars>>

\* 3. Kernel-Add
KernelWaitsNothing(marker) == <<>>

\* kern.cmd()...ewait(&kernel_wait_marker): the kernel waits on the marker.
KernelWaits(marker) == <<marker>>

kernel_add ==
    /\ driverPc = "kernel"
    /\ LET k == NewEvent("Kernel", task_iter)
           mk == NewEvent("Marker", task_iter)
           on_complete == <<"kernel_complete", task_iter>>
           wl == KernelWaitList(verify_add_unmap_event, write_init_unmap_event) IN
       /\ kernel_wait_list' = wl
       /\ kernel_event' = k
       /\ IF StatusAtSetCallback(status[mk], "queued") = "unset"
          THEN /\ Panic("signal_not_bound")
               /\ status' = [status EXCEPT ![mk] = "queued"]
               /\ waitList' = [waitList EXCEPT ![mk] = wl]
               /\ UNCHANGED cbOn
          ELSE /\ status' = [status EXCEPT ![mk] = "queued", ![k] = "queued"]
               /\ waitList' = [waitList EXCEPT ![mk] = wl, ![k] = KernelWaits(mk)]
               /\ IF StatusAtSetCallback(status[k], "queued") = "unset"
                  THEN /\ Panic("signal_not_bound")
                       /\ UNCHANGED cbOn
                  ELSE /\ driverPc' = "verify_add"
                       /\ cbOn' = Register(cbOn, on_complete, k)
                       /\ UNCHANGED abort
    /\ UNCHANGED <<rawVars, bufVars, cbRuns, task_iter, fill_event, write_init_unmap_event,
                   verify_add_unmap_event, starting, poolVars, chan, consumerVars>>

StoreUnmapEventDropped(slot, ev) == slot

\* *verify_add_unmap_event = Some(...create_unmap_event()...): the slot's new content.
StoreUnmapEvent(slot, ev) == ev

\* 4. Map-Verify-Add
map_verify_add ==
    /\ driverPc = "verify_add"
    /\ LET m == NewEvent("VMap", task_iter)
           u == NewEvent("VUnmap", task_iter)
           wait_event == VerifyWaitArg
           on_start == <<"verify_add_starting", task_iter>> IN
       IF wait_event = None
       THEN /\ Panic("unwrap_none")
            /\ UNCHANGED <<status, waitList, verify_add_unmap_event, cbOn>>
       ELSE IF ~CallbackOk(wait_event)
       THEN /\ Panic("signal_not_bound")
            /\ UNCHANGED <<status, waitList, verify_add_unmap_event, cbOn>>
       ELSE /\ cbOn' = Register(cbOn, on_start, wait_event)
            /\ status' = [status EXCEPT ![m] = "queued", ![u] = "created"]
            /\ waitList' = [waitList EXCEPT ![m] = EwaitOpt(wait_event)]
            /\ verify_add_unmap_event' = StoreUnmapEvent(verify_add_unmap_event, u)
            /\ driverPc' = "spawn"
            /\ UNCHANGED abort
    /\ UNCHANGED <<rawVars, bufVars, cbRuns, task_iter, fill_event, write_init_unmap_event,
                   kernel_event, kernel_wait_list, starting, poolVars, chan,
                   consumerVars>>

\* main is about to call one of the five stage functions.
InStageCall == driverPc \in {"fill", "write_init", "verify_init", "kernel", "verify_add"}

AfterFailedCallGoesOn(pc) ==
    IF pc = "fill" THEN "write_init"
    ELSE IF pc = "write_init" THEN "verify_init"
    ELSE IF pc = "verify_init" THEN "kernel"
    ELSE IF pc = "kernel" THEN "verify_add"
    ELSE "spawn"

\* Every runtime call of a stage function ends in .unwrap(): an Err panics.
AfterFailedCall(pc) == "panicked"

\* A runtime call of the stage function main is in returns Err: the first
\* one, with nothing of the stage enqueued, or in kernel_add the kernel
\* enqueue, with the marker already enqueued.
stage_call_fails ==
    /\ InStageCall
    /\ faults < MaxFaults
    /\ faults' = faults + 1
    /\ driverPc' = AfterFailedCall(driverPc)
    /\ abort' = <<"call_failed", driverPc>>
    /\ \/ UNCHANGED <<status, waitList, kernel_wait_list, kernel_event>>
       \/ /\ driverPc = "kernel"
          /\ LET mk == NewEvent("Marker", task_iter)
                 wl == KernelWaitList(verify_add_unmap_event, write_init_unmap_event) IN
             /\ kernel_wait_list' = wl
             /\ kernel_event' = NewEvent("Kernel", task_iter)
             /\ status' = [status EXCEPT ![mk] = "queued"]
             /\ waitList' = [waitList EXCEPT ![mk] = wl]
    /\ UNCHANGED <<rawVars, bufVars, cbVars, task_iter, fill_event, write_init_unmap_event,
                   verify_add_unmap_event, starting, spawned, writeSt, verifySt,
                   writeRes, verifyRes, examined, chan, consumerVars>>

\* write_init.join(verify_add) handed to thread_pool.spawn.
spawn_join ==
    /\ driverPc = "spawn"
    /\ spawned' = spawned \cup {task_iter}
    /\ driverPc' = "send"
    /\ UNCHANGED <<rawVars, bufVars, cbVars, abort, task_iter, fill_event, write_init_unmap_event, kernel_event,
                   verify_add_unmap_event, kernel_wait_list, status, waitList,
                   starting, writeSt, verifySt, faults, writeRes, verifyRes,
                   examined, chan, consumerVars>>

----------------------------------------------------------------------------
(* The sync channel *)

ChannelBoundOne == MAX_CONCURRENT_TASK_COUNT - 1
ChannelBoundRoomy == MAX_CONCURRENT_TASK_COUNT + 1
ChannelBoundFull == MAX_CONCURRENT_TASK_COUNT

\* mpsc::sync_channel(MAX_CONCURRENT_TASK_COUNT - 2): the buffer size.
ChannelBound == MAX_CONCURRENT_TASK_COUNT - 2

ReceiverGoneOrTaskFailed ==
    \/ consumerPc \in {"exited", "panicked"}
    \/ \E j \in Iters : writeSt[j] = "err" \/ verifySt[j] = "err"

ReceiverGoneOnExitOnly == consumerPc = "exited"

\* The receiver is dropped when the completion thread ends.
ReceiverGone == consumerPc \in {"exited", "panicked"}

\* main is parked inside tx.send with an item not yet in the buffer.
SendBlocked == driverPc \in {"send_blocked", "send_none_blocked"}

BlockedItem == IF driverPc = "send_blocked" THEN task_iter ELSE NoneMsg

AfterSendShort(pc, it) ==
    IF pc \in {"send_none", "send_none_blocked"} THEN <<"join", it>>
    ELSE IF it + 2 < TASK_ITERS THEN <<"fill", it + 1>>
    ELSE <<"send_none", it + 1>>

\* Where main continues once a send has returned Ok: the next pass of the
\* loop over 0..TASK_ITERS, then the send of None, then the join.
AfterSend(pc, it) ==
    IF pc \in {"send_none", "send_none_blocked"} THEN <<"join", it>>
    ELSE IF it + 1 < TASK_ITERS THEN <<"fill", it + 1>>
    ELSE <<"send_none", it + 1>>

AfterSendErrIgnored(pc, it) == AfterSend(pc, it)

\* Where main continues once a send has returned Err: unwrap panics.
AfterSendErr(pc, it) == <<"panicked", it>>

\* tx.send(Some(join_spawned)).unwrap()
send_task ==
    /\ driverPc = "send"
    /\ IF ReceiverGone
       THEN /\ driverPc' = AfterSendErr(driverPc, task_iter)[1]
            /\ task_iter' = AfterSendErr(driverPc, task_iter)[2]
            /\ abort' = <<"send", driverPc>>
            /\ UNCHANGED chan
       ELSE IF Len(chan) < ChannelBound
       THEN /\ chan' = Append(chan, task_iter)
            /\ driverPc' = AfterSend(driverPc, task_iter)[1]
            /\ task_iter' = AfterSend(driverPc, task_iter)[2]
            /\ UNCHANGED abort
       ELSE /\ driverPc' = "send_blocked"
            /\ UNCHANGED <<task_iter, chan, abort>>
    /\ UNCHANGED <<rawVars, bufVars, cbVars, fill_event, write_init_unmap_event, kernel_event,
                   verify_add_unmap_event, kernel_wait_list, status, waitList,
                   starting, poolVars, consumerVars>>

\* tx.send(None).unwrap()
send_none ==
    /\ driverPc = "send_none"
    /\ IF ReceiverGone
       THEN /\ Panic("send")
            /\ UNCHANGED chan
       ELSE IF Len(chan) < ChannelBound
       THEN /\ chan' = Append(chan, NoneMsg)
            /\ driverPc' = AfterSend(driverPc, task_iter)[1]
            /\ UNCHANGED abort
       ELSE /\ driverPc' = "send_none_blocked"
            /\ UNCHANGED <<chan, abort>>
    /\ UNCHANGED <<rawVars, bufVars, cbVars, task_iter, fill_event, write_init_unmap_event, kernel_event,
                   verify_add_unmap_event, kernel_wait_list, status, waitList,
                   starting, poolVars, consumerVars>>

\* A parked send returns Err once the receiver is gone, and unwrap panics.
send_disconnected ==
    /\ SendBlocked
    /\ ReceiverGone
    /\ Panic("send")
    /\ UNCHANGED <<rawVars, bufVars, cbVars, task_iter, fill_event, write_init_unmap_event, kernel_event,
                   verify_add_unmap_event, kernel_wait_list, status, waitList,
                   starting, poolVars, chan, consumerVars>>

\* completion_thread.join().unwrap(), then the final line of main.
join_thread ==
    /\ driverPc = "join"
    /\ ReceiverGone
    /\ driverPc' = IF consumerPc = "exited" THEN "done" ELSE "panicked"
    /\ abort' = IF consumerPc = "exited" THEN abort ELSE <<"join", driverPc>>
    /\ UNCHANGED <<rawVars, bufVars, cbVars, task_iter, fill_event, write_init_unmap_event, kernel_event,
                   verify_add_unmap_event, kernel_wait_list, status, waitList,
                   starting, poolVars, chan, consumerVars>>

----------------------------------------------------------------------------
(* The completion thread *)

\* The item rx.recv() returns: the oldest buffered one, else the one a parked
\* sender is handing over.
RecvItem == IF chan # <<>> THEN Head(chan) ELSE BlockedItem

\* rx.recv().unwrap() and the match on its result.
recv ==
    /\ Alive
    /\ consumerPc = "recv"
    /\ chan # <<>> \/ SendBlocked
    /\ chan' = IF chan = <<>> THEN chan
               ELSE IF SendBlocked THEN Append(Tail(chan), BlockedItem)
               ELSE Tail(chan)
    /\ IF SendBlocked
       THEN /\ driverPc' = AfterSend(driverPc, task_iter)[1]
            /\ task_iter' = AfterSend(driverPc, task_iter)[2]
       ELSE UNCHANGED <<driverPc, task_iter>>
    /\ IF RecvItem = NoneMsg
       THEN /\ consumerPc' = "exited"
            /\ UNCHANGED curTask
       ELSE /\ consumerPc' = "wait"
            /\ curTask' = RecvItem
    /\ UNCHANGED <<rawVars, bufVars, cbVars, abort, fill_event, write_init_unmap_event,
                   kernel_event, verify_add_unmap_event, kernel_wait_list, status,
                   waitList, starting, poolVars, task_i, reported>>

TaskOkWriteOnly(i) == writeSt[i] = "done"

\* The joined future of iteration i has resolved to Ok.
TaskOk(i) == writeSt[i] = "done" /\ verifySt[i] = "done"

\* The joined future of iteration i has resolved to Err.
TaskErr(i) == writeSt[i] = "err" \/ verifySt[i] = "err"

WaitReturnsAtOnce(i) == TRUE

\* task.wait() has a result to return.
WaitReturns(i) == TaskOk(i) \/ TaskErr(i)

UnwrapIgnoresErr(i) == FALSE
UnwrapPanicsOnWriteErr(i) == writeSt[i] = "err"

\* .unwrap() on the result of task.wait() panics when the task resolved to Err.
UnwrapPanics(i) == TaskErr(i)

TaskCounterStuck(n) == n

\* task_i += 1
TaskCounterNext(n) == n + 1

\* task.wait().unwrap(), the "Task n complete" line and task_i += 1.
task_wait ==
    /\ Alive
    /\ consumerPc = "wait"
    /\ WaitReturns(curTask)
    /\ IF UnwrapPanics(curTask)
       THEN /\ consumerPc' = "panicked"
            /\ UNCHANGED <<curTask, task_i, reported>>
       ELSE /\ reported' = Append(reported, [n |-> task_i, iter |-> curTask])
            /\ task_i' = TaskCounterNext(task_i)
            /\ curTask' = NoTask
            /\ consumerPc' = "recv"
    /\ UNCHANGED <<rawVars, bufVars, cbVars, driverVars, status, waitList, starting, poolVars, chan>>

----------------------------------------------------------------------------
(* The device: out-of-order queues *)

\* A fill, kernel or read command begins executing.
device_start(e) ==
    /\ Alive
    /\ e[1] \in Timed
    /\ status[e] = "queued"
    /\ Ready(e)
    /\ status' = [status EXCEPT ![e] = "running"]
    /\ UNCHANGED <<rawVars, bufVars, cbVars, driverVars, waitList, starting, poolVars, chan, consumerVars>>

KernelSumShort(addend) == addend - 1

\* add_slowly's loop: addend times, sum += convert_int((addend * 255 / 255) / addend).
KernelSum(addend) == addend * (((addend * 255) \div 255) \div addend)

\* out[idx] = in[idx] + sum, for every work item.
KernelOut(in) == [idx \in Index |-> in[idx] + KernelSum(SCALAR_ADDEND)]

\* What a kernel that goes wrong may leave: some element without the sum.
KernelWrong(in) ==
    {[idx \in Index |-> IF idx \in S THEN in[idx] ELSE KernelOut(in)[idx]] :
        S \in (SUBSET Index) \ {{}}}

\* The contents of the buffers once command e has finished: the fill writes
\* FillVal everywhere, the kernel writes its sums, the read changes neither.
BufAfter(e) ==
    IF e[1] = "Fill" THEN <<[idx \in Index |-> FillVal], dst_buf>>
    ELSE IF e[1] = "Kernel" THEN <<src_buf, KernelOut(src_buf)>>
    ELSE <<src_buf, dst_buf>>

\* A running command finishes; its event becomes complete.
device_finish(e) ==
    /\ Alive
    /\ status[e] = "running"
    /\ status' = [status EXCEPT ![e] = "complete"]
    /\ src_buf' = BufAfter(e)[1]
    /\ dst_buf' = BufAfter(e)[2]
    /\ UNCHANGED <<rawVars, cbVars, driverVars, waitList, starting, poolVars, chan, consumerVars>>

\* A running kernel finishes and leaves wrong values in the destination buffer.
kernel_miscomputes(e) ==
    /\ Alive
    /\ e[1] = "Kernel"
    /\ status[e] = "running"
    /\ faults < MaxFaults
    /\ faults' = faults + 1
    /\ status' = [status EXCEPT ![e] = "complete"]
    /\ dst_buf' \in KernelWrong(src_buf)
    /\ UNCHANGED <<rawVars, cbVars, driverVars, waitList, starting, spawned, writeSt, verifySt,
                   writeRes, verifyRes, examined, src_buf, chan, consumerVars>>

\* A map, unmap or marker command is carried out once its wait list is complete.
device_exec(e) ==
    /\ Alive
    /\ e[1] \notin Timed
    /\ status[e] = "queued"
    /\ Ready(e)
    /\ status' = [status EXCEPT ![e] = "complete"]
    /\ UNCHANGED <<rawVars, bufVars, cbVars, driverVars, waitList, starting, poolVars, chan, consumerVars>>

\* kernel_add's _print_starting, registered on the marker event.
kernel_starting_callback(i) ==
    /\ Alive
    /\ i \notin starting
    /\ IsComplete(<<"Marker", i>>)
    /\ starting' = starting \cup {i}
    /\ UNCHANGED <<rawVars, bufVars, cbVars, driverVars, status, waitList, poolVars, chan, consumerVars>>

----------------------------------------------------------------------------
(* The CPU pool: the and_then continuations of the joined future *)

\* Results of the futures.
Pending == [kind |-> "pending"]
Ok(v) == [kind |-> "ok", val |-> v]
UnmapErr == [kind |-> "err", what |-> "unmap"]

\* format!("Result value mismatch: {:?} != {:?} @ [{}]", val, cval, idx):
\* the message carries the value found, the value expected and the index.
MismatchErr(val, cval, idx) ==
    [kind |-> "err", what |-> "mismatch", actual |-> val, expected |-> cval, index |-> idx]

RECURSIVE WriteLoopButLast(_, _, _)
WriteLoopButLast(data, idx, write_val) ==
    IF idx >= WORK_SIZE - 1 THEN data
    ELSE WriteLoopButLast([data EXCEPT ![idx] = write_val], idx + 1, write_val)

\* for val in data.iter_mut() { *val = Int4::new(write_val, ...) }
RECURSIVE WriteLoop(_, _, _)
WriteLoop(data, idx, write_val) ==
    IF idx = WORK_SIZE THEN data
    ELSE WriteLoop([data EXCEPT ![idx] = write_val], idx + 1, write_val)

RECURSIVE VerifyLoopNoReturn(_, _, _, _)
VerifyLoopNoReturn(data, idx, val_count, cval) ==
    IF idx = WORK_SIZE
    THEN [res |-> IF val_count = WORK_SIZE THEN Ok(val_count)
                  ELSE MismatchErr(data[WORK_SIZE - 1], cval, WORK_SIZE - 1),
          examined |-> idx]
    ELSE VerifyLoopNoReturn(data, idx + 1,
                            IF data[idx] # cval THEN val_count ELSE val_count + 1, cval)

\* for (idx, val) in data.iter().enumerate(): return Err at the first value
\* that differs from cval, else count it; Ok(val_count) after the last one.
RECURSIVE VerifyLoop(_, _, _, _)
VerifyLoop(data, idx, val_count, cval) ==
    IF idx = WORK_SIZE THEN [res |-> Ok(val_count), examined |-> idx]
    ELSE IF data[idx] # cval
    THEN [res |-> MismatchErr(data[idx], cval, idx), examined |-> idx + 1]
    ELSE VerifyLoop(data, idx + 1, val_count + 1, cval)

write_start_unmaps_first(i) ==
    /\ Alive
    /\ i \in spawned
    /\ writeSt[i] = "waiting"
    /\ ~TaskErr(i)
    /\ IsComplete(<<"WMap", i>>)
    /\ writeSt' = [writeSt EXCEPT ![i] = "writing"]
    /\ status' = [status EXCEPT ![<<"WUnmap", i>>] = "queued"]
    /\ UNCHANGED <<rawVars, bufVars, cbVars, driverVars, waitList, starting, spawned, verifySt,
                   faults, writeRes, verifyRes, examined, chan, consumerVars>>

\* map_write_init's closure begins once the map has completed.
write_start(i) ==
    /\ Alive
    /\ i \in spawned
    /\ writeSt[i] = "waiting"
    /\ ~TaskErr(i)
    /\ IsComplete(<<"WMap", i>>)
    /\ writeSt' = [writeSt EXCEPT ![i] = "writing"]
    /\ UNCHANGED <<rawVars, bufVars, cbVars, driverVars, status, waitList, starting, spawned, verifySt,
                   faults, writeRes, verifyRes, examined, chan, consumerVars>>

\* The closure writes every element, enqueues the unmap and returns Ok(task_iter).
write_finish(i) ==
    /\ Alive
    /\ writeSt[i] = "writing"
    /\ src_buf' = WriteLoop(src_buf, 0, WriteVal)
    /\ writeSt' = [writeSt EXCEPT ![i] = "done"]
    /\ writeRes' = [writeRes EXCEPT ![i] = Ok(i)]
    /\ status' = [status EXCEPT ![<<"WUnmap", i>>] = "queued"]
    /\ UNCHANGED <<rawVars, dst_buf, cbVars, driverVars, waitList, starting, spawned, verifySt,
                   faults, verifyRes, examined, chan, consumerVars>>

\* data.unmap()...enq()? fails after the writes: the closure returns Err.
write_unmap_fails(i) ==
    /\ Alive
    /\ writeSt[i] = "writing"
    /\ faults < MaxFaults
    /\ faults' = faults + 1
    /\ src_buf' = WriteLoop(src_buf, 0, WriteVal)
    /\ writeSt' = [writeSt EXCEPT ![i] = "err"]
    /\ writeRes' = [writeRes EXCEPT ![i] = UnmapErr]
    /\ UNCHANGED <<rawVars, dst_buf, cbVars, driverVars, status, waitList, starting, spawned, verifySt,
                   verifyRes, examined, chan, consumerVars>>

verify_start_unmaps_first(i) ==
    /\ Alive
    /\ i \in spawned
    /\ verifySt[i] = "waiting"
    /\ ~TaskErr(i)
    /\ IsComplete(<<"VMap", i>>)
    /\ verifySt' = [verifySt EXCEPT ![i] = "scanning"]
    /\ status' = [status EXCEPT ![<<"VUnmap", i>>] = "queued"]
    /\ UNCHANGED <<rawVars, bufVars, cbVars, driverVars, waitList, starting, spawned, writeSt,
                   faults, writeRes, verifyRes, examined, chan, consumerVars>>

\* map_verify_add's closure begins once the map has completed.
verify_start(i) ==
    /\ Alive
    /\ i \in spawned
    /\ verifySt[i] = "waiting"
    /\ ~TaskErr(i)
    /\ IsComplete(<<"VMap", i>>)
    /\ verifySt' = [verifySt EXCEPT ![i] = "scanning"]
    /\ UNCHANGED <<rawVars, bufVars, cbVars, driverVars, status, waitList, starting, spawned, writeSt,
                   faults, writeRes, verifyRes, examined, chan, consumerVars>>

MemMapDropKeepsMapped(st) == st

\* A mapped view that goes out of scope unmaps itself: the state of its unmap
\* event afterwards.
MemMapDrop(st) == "queued"

\* The closure's scan.  Every element correct: it enqueues the unmap and
\* returns Ok(val_count).  Else it returns Err from inside the loop; the
\* mapped view goes out of scope and unmaps itself.
verify_finish(i) ==
    /\ Alive
    /\ verifySt[i] = "scanning"
    /\ LET r == VerifyLoop(dst_buf, 0, 0, CorrectVal) IN
       /\ verifyRes' = [verifyRes EXCEPT ![i] = r.res]
       /\ examined' = [examined EXCEPT ![i] = r.examined]
       /\ verifySt' = [verifySt EXCEPT ![i] = IF r.res.kind = "ok" THEN "done" ELSE "err"]
       /\ status' = [status EXCEPT ![<<"VUnmap", i>>] =
                         IF r.res.kind = "ok" THEN "queued" ELSE MemMapDrop(@)]
    /\ UNCHANGED <<rawVars, bufVars, cbVars, driverVars, waitList, starting, spawned, writeSt,
                   faults, writeRes, chan, consumerVars>>

\* data.unmap()...enq()? fails after a clean scan: the closure returns Err.
verify_unmap_fails(i) ==
    /\ Alive
    /\ verifySt[i] = "scanning"
    /\ VerifyLoop(dst_buf, 0, 0, CorrectVal).res.kind = "ok"
    /\ faults < MaxFaults
    /\ faults' = faults + 1
    /\ verifySt' = [verifySt EXCEPT ![i] = "err"]
    /\ verifyRes' = [verifyRes EXCEPT ![i] = UnmapErr]
    /\ examined' = [examined EXCEPT ![i] = WORK_SIZE]
    /\ UNCHANGED <<rawVars, bufVars, cbVars, driverVars, status, waitList, starting, spawned, writeSt,
                   writeRes, chan, consumerVars>>

----------------------------------------------------------------------------
(* Specification *)

\* Buffers are created without contents: whatever memory they get.
InitData ==
    /\ src_buf \in {[idx \in Index |-> v] : v \in {0, CorrectVal}}
    /\ dst_buf \in {[idx \in Index |-> v] : v \in {0, CorrectVal}}
    /\ writeRes = [i \in Iters |-> Pending]
    /\ verifyRes = [i \in Iters |-> Pending]
    /\ examined = [i \in Iters |-> 0]

\* main up to the loop: empty event slots, the completion thread started.
MainStart ==
    /\ driverPc = "fill"
    /\ task_iter = 0
    /\ fill_event = None
    /\ write_init_unmap_event = None
    /\ kernel_event = None
    /\ verify_add_unmap_event = None
    /\ kernel_wait_list = <<>>
    /\ status = [e \in Events |-> "unset"]
    /\ waitList = [e \in Events |-> <<>>]
    /\ starting = {}
    /\ spawned = {}
    /\ writeSt = [i \in Iters |-> "waiting"]
    /\ verifySt = [i \in Iters |-> "waiting"]
    /\ chan = <<>>
    /\ consumerPc = "recv"
    /\ curTask = NoTask
    /\ task_i = 0
    /\ reported = <<>>
    /\ faults = 0
    /\ abort = <<"none", "none">>
    /\ cbOn = [c \in Callbacks |-> None]
    /\ cbRuns = [c \in Callbacks |-> 0]
    /\ InitData

\* No support function of raw/functions.rs is being followed.
NoCall == [fn |-> "none"]

InitMain == MainStart /\ call = NoCall

\* Iteration 0 taken up just after the read_verify_init call, with what
\* fill_junk and map_write_init have enqueued.  main cannot get past that
\* call at iteration 0 (it unwraps the empty kernel_event); this second start
\* lets the rest of the loop body and the later iterations be explored.
InitPastVerifyInit ==
    /\ driverPc = "kernel"
    /\ task_iter = 0
    /\ fill_event = <<"Fill", 0>>
    /\ write_init_unmap_event = <<"WUnmap", 0>>
    /\ kernel_event = None
    /\ verify_add_unmap_event = None
    /\ kernel_wait_list = <<>>
    /\ status = [e \in Events |->
                   IF e \in {<<"Fill", 0>>, <<"WMap", 0>>} THEN "queued"
                   ELSE IF e = <<"WUnmap", 0>> THEN "created"
                   ELSE "unset"]
    /\ waitList = [e \in Events |->
                   IF e = <<"WMap", 0>> THEN <<<<"Fill", 0>>>> ELSE <<>>]
    /\ starting = {}
    /\ spawned = {}
    /\ writeSt = [i \in Iters |-> "waiting"]
    /\ verifySt = [i \in Iters |-> "waiting"]
    /\ chan = <<>>
    /\ consumerPc = "recv"
    /\ curTask = NoTask
    /\ task_i = 0
    /\ reported = <<>>
    /\ faults = 0
    /\ abort = <<"none", "none">>
    /\ cbOn = [c \in Callbacks |->
                 IF c = <<"fill_complete", 0>> THEN <<"Fill", 0>>
                 ELSE IF c = <<"write_complete", 0>> THEN <<"WUnmap", 0>>
                 ELSE None]
    /\ cbRuns = [c \in Callbacks |-> IF c = <<"fill_starting", 0>> THEN 1 ELSE 0]
    /\ call = NoCall
    /\ InitData

Init == InitMain \/ InitPastVerifyInit

Driver ==
    \/ fill_junk
    \/ map_write_init
    \/ read_verify_init
    \/ kernel_add
    \/ map_verify_add
    \/ stage_call_fails
    \/ spawn_join
    \/ send_task
    \/ send_none
    \/ send_disconnected
    \/ join_thread

Consumer == recv \/ task_wait

Device ==
    \/ \E e \in Events : device_start(e)
    \/ \E e \in Events : device_finish(e)
    \/ \E e \in Events : device_exec(e)
    \/ \E i \in Iters : kernel_starting_callback(i)
    \/ \E e \in Events : kernel_miscomputes(e)

Pool ==
    \/ \E i \in Iters : write_start(i)
    \/ \E i \in Iters : write_finish(i)
    \/ \E i \in Iters : verify_start(i)
    \/ \E i \in Iters : verify_finish(i)
    \/ \E i \in Iters : write_unmap_fails(i)
    \/ \E i \in Iters : verify_unmap_fails(i)

Next == Driver \/ Consumer \/ Device \/ Pool

Spec == Init /\ [][Next]_vars

\* The callbacks that are registered, not yet called, on a complete event.
CallbackDue ==
    {c \in Callbacks : cbOn[c] # None /\ IsComplete(cbOn[c]) /\ cbRuns[c] = 0}

\* The runtime calls a registered callback once its event is complete.
callback_runs(c) ==
    /\ Alive
    /\ c \in CallbackDue
    /\ cbRuns' = [cbRuns EXCEPT ![c] = @ + 1]
    /\ UNCHANGED <<rawVars, bufVars, cbOn, driverVars, status, waitList, starting, poolVars,
                   chan, consumerVars>>

\* The callbacks only print a line, so Spec leaves their calls out.  Here they
\* are followed: a due callback is called before the program moves on, the
\* due ones in any order.
NextCallbacks ==
    \/ CallbackDue = {} /\ Next
    \/ \E c \in Callbacks : callback_runs(c)

SpecCallbacks == Init /\ [][NextCallbacks]_vars

\* The scheduling the program runs under: the main thread keeps running, and
\* the device carries out an unmap command that is enqueued and ready.
Fairness ==
    /\ WF_vars(Driver)
    /\ \A i \in Iters : WF_vars(device_exec(<<"VUnmap", i>>))

SpecFair == Init /\ [][Next]_vars /\ Fairness

----------------------------------------------------------------------------
(* raw/functions.rs: support functions *)

\* Largest magnitude of a status code tried.
MaxErrcode == 3

\* Longest wait list tried.
MaxWaitLen == 2

\* Addresses tried for a slice or an event slot.
MaxAddr == 2

\* cl_h::Status::CL_SUCCESS as cl_int
CL_SUCCESS == 0

\* ptr::null_mut()
NullPtr == 0

\* Option values: None, Some(v).
NoneOpt == [some |-> FALSE]
SomeOpt(v) == [some |-> TRUE, val |-> v]

\* cl_int status codes a runtime call may return.
Errcodes == (0 - MaxErrcode) .. MaxErrcode

\* The message argument: the name of the runtime call.
Messages == {"clWaitForEvents", "clSetEventCallback"}

\* Addresses of live objects: never null.
Addrs == 1 .. MaxAddr

EventRaws == {"ev_a", "ev_b"}

\* &[EventRaw]: where the slice starts, and its elements.
Slices ==
    {[ptr |-> a, items |-> items] :
        a \in Addrs, items \in UNION {[1 .. n -> EventRaws] : n \in 0 .. MaxWaitLen}}

\* Option<&[EventRaw]>
WaitLists == {NoneOpt} \cup {SomeOpt(wl) : wl \in Slices}

\* Option<&mut EventRaw>
NewEvents == {NoneOpt} \cup {SomeOpt(a) : a \in Addrs}

\* The error a failed runtime call is reported as: the call and its code.
OclErrorErrcode(errcode, message) ==
    [kind |-> "err", what |-> "RuntimeOpFailed", operation |-> message, code |-> errcode]

errcode_try_negative_only(message, errcode) ==
    IF errcode < CL_SUCCESS
    THEN OclErrorErrcode(errcode, message)
    ELSE Ok(<<>>)

errcode_try(message, errcode) ==
    IF errcode # CL_SUCCESS
    THEN OclErrorErrcode(errcode, message)
    ELSE Ok(<<>>)

\* errcode_try(message, errcode).unwrap()
errcode_assert(message, errcode) ==
    LET r == errcode_try(message, errcode) IN
    IF r.kind = "ok" THEN [kind |-> "returned"] ELSE [kind |-> "panic", err |-> r]

resolve_event_opts_ptr_of_empty(wait_list, new_event) ==
    LET wl == IF wait_list.some
              THEN <<Len(wait_list.val.items), wait_list.val.ptr>>
              ELSE <<0, NullPtr>>
        new_event_ptr == IF new_event.some THEN new_event.val ELSE NullPtr
    IN  Ok(<<wl[1], wl[2], new_event_ptr>>)

\* (wait_list_len, wait_list_ptr, new_event_ptr)
resolve_event_opts(wait_list, new_event) ==
    LET wl == IF wait_list.some
              THEN IF Len(wait_list.val.items) > 0
                   THEN <<Len(wait_list.val.items), wait_list.val.ptr>>
                   ELSE <<0, NullPtr>>
              ELSE <<0, NullPtr>>
        new_event_ptr == IF new_event.some THEN new_event.val ELSE NullPtr
    IN  Ok(<<wl[1], wl[2], new_event_ptr>>)

\* Everything of the pipeline: the support functions touch none of it.
pipeVars == <<bufVars, cbVars, driverVars, status, waitList, starting, poolVars,
              chan, consumerVars>>

\* A caller holds the arguments of a support function.
RawArgs ==
    [fn : {"args"}, message : Messages, errcode : Errcodes, wait_list : WaitLists,
     new_event : NewEvents, ret : {Pending}]

errcode_try_call ==
    /\ call.fn = "args"
    /\ call' = [call EXCEPT !.fn = "errcode_try",
                            !.ret = errcode_try(call.message, call.errcode)]
    /\ UNCHANGED pipeVars

errcode_assert_call ==
    /\ call.fn = "args"
    /\ call' = [call EXCEPT !.fn = "errcode_assert",
                            !.ret = errcode_assert(call.message, call.errcode)]
    /\ UNCHANGED pipeVars

resolve_event_opts_call ==
    /\ call.fn = "args"
    /\ call' = [call EXCEPT !.fn = "resolve_event_opts",
                            !.ret = resolve_event_opts(call.wait_list, call.new_event)]
    /\ UNCHANGED pipeVars

InitRaw == MainStart /\ call \in RawArgs

NextRaw == errcode_try_call \/ errcode_assert_call \/ resolve_event_opts_call

SpecRaw == InitRaw /\ [][NextRaw]_vars

TypeOK ==
    /\ driverPc \in {"fill", "write_init", "verify_init", "kernel", "verify_add",
                     "spawn", "send", "send_blocked", "send_none",
                     "send_none_blocked", "join", "done", "panicked"}
    /\ task_iter \in 0 .. TASK_ITERS
    /\ \A e \in Events : status[e] \in {"unset", "created", "queued", "running", "complete"}
    /\ consumerPc \in {"recv", "wait", "exited", "panicked"}
    /\ spawned \subseteq Iters
    /\ faults \in 0 .. MaxFaults
    /\ abort[1] \in {"none", "unwrap_none", "signal_not_bound", "call_failed", "send", "join"}
    /\ \A c \in Callbacks : cbOn[c] \in Events \cup {None} /\ cbRuns[c] \in 0 .. 2

----------------------------------------------------------------------------
(* Properties *)

\* A command is executing on the device.
Running(e) == status[e] = "running"

\* Iteration i's mapped write holds its view of the source buffer: from the
\* completion of the map command until the completion of the unmap.
WriteViewHeld(i) == IsComplete(<<"WMap", i>>) /\ ~IsComplete(<<"WUnmap", i>>)

\* Tasks handed to tx.send and not yet taken by rx.recv.
Outstanding ==
    Cardinality({k \in 1 .. Len(chan) : chan[k] # NoneMsg}) +
    (IF driverPc = "send_blocked" THEN 1 ELSE 0)

\* C1: the kernel of iteration i never starts before the write-unmap event of
\* iteration i and the verify-unmap event of iteration i-1 are complete; at
\* iteration 0 its marker waits on the write-unmap event alone; and the
\* "Kernel starting" callback of iteration i+1 never runs before the
\* verify-unmap event of iteration i is complete.
C1_KernelWaits ==
    /\ \A i \in Iters :
         Started(<<"Kernel", i>>) =>
            /\ IsComplete(<<"WUnmap", i>>)
            /\ i >= 1 => IsComplete(<<"VUnmap", i - 1>>)
    /\ \A i \in Iters :
         (i \in starting /\ i >= 1) => IsComplete(<<"VUnmap", i - 1>>)
    /\ status[<<"Marker", 0>>] # "unset" =>
         waitList[<<"Marker", 0>>] = << <<"WUnmap", 0>> >>

C1_Witness ==
    /\ Running(<<"Kernel", 1>>)
    /\ 1 \in starting
    /\ IsComplete(<<"Kernel", 0>>)

\* C2: for i >= 1 the fill of iteration i never starts before the kernel event
\* of iteration i-1 is complete; the fill of iteration 0 is enqueued with an
\* empty wait list.
C2_FillWaits ==
    /\ \A i \in Iters :
         (i >= 1 /\ Started(<<"Fill", i>>)) => IsComplete(<<"Kernel", i - 1>>)
    /\ status[<<"Fill", 0>>] # "unset" => waitList[<<"Fill", 0>>] = <<>>

C2_Witness ==
    /\ Running(<<"Fill", 1>>)
    /\ waitList[<<"Fill", 1>>] = << <<"Kernel", 0>> >>

\* C3: the fill of iteration i is never executing while the kernel of
\* iteration i-1 is still enqueued or executing.
C3_FillKernelDisjoint ==
    \A i \in Iters :
        (i >= 1 /\ Running(<<"Fill", i>>)) =>
            status[<<"Kernel", i - 1>>] \notin {"unset", "queued", "running"}

C3_Witness ==
    /\ Running(<<"Fill", 2>>)
    /\ verifySt[1] = "scanning"

C5_ReportOrder ==
    /\ \A k \in 1 .. Len(reported) :
         /\ reported[k].iter = k - 1
         /\ TaskOk(reported[k].iter)
    /\ consumerPc = "wait" => curTask = Len(reported)
    /\ consumerPc = "recv" => curTask = NoTask

C5_Witness ==
    /\ Len(reported) = 2
    /\ consumerPc = "wait"
    /\ ~TaskOk(2)

\* C6: the tasks submitted and not yet claimed never number more than
\* MAX_CONCURRENT_TASK_COUNT.
C6_OutstandingBound == Outstanding <= MAX_CONCURRENT_TASK_COUNT

C6_Witness ==
    /\ Outstanding = 1
    /\ consumerPc = "wait"
    /\ curTask = 1

C8_StopsOnlyWhenDone ==
    (faults = 0 /\ ~ENABLED Next) =>
        /\ driverPc = "done"
        /\ consumerPc = "exited"
        /\ Len(reported) = TASK_ITERS

\* C9: main never fails while enqueueing iteration 0: if main has panicked,
\* the task of iteration 0 had been created and spawned.
C9_IterationZeroEnqueued == driverPc = "panicked" => 0 \in spawned

\* C10: None is sent only after all TASK_ITERS tasks; the completion thread
\* leaves its loop only on None, having counted TASK_ITERS tasks; main prints
\* its final line only after the completion thread has left.
C10_SentinelLast ==
    /\ (driverPc \in {"send_none_blocked", "join", "done"}
            \/ \E k \in 1 .. Len(chan) : chan[k] = NoneMsg)
         => /\ task_iter = TASK_ITERS
            /\ spawned = Iters
    /\ consumerPc = "exited" =>
         /\ task_i = TASK_ITERS
         /\ Len(reported) = TASK_ITERS
         /\ driverPc \in {"join", "done"}
    /\ driverPc = "done" => consumerPc = "exited"

C10_Witness ==
    /\ driverPc = "done"
    /\ consumerPc = "exited"
    /\ task_i = TASK_ITERS

\* One of the two futures of iteration j has resolved to Err.
Failed(j) == writeSt[j] = "err" \/ verifySt[j] = "err"

\* The verify future of iteration j has resolved to a value mismatch.
Mismatch(j) == verifyRes[j].kind = "err" /\ verifyRes[j].what = "mismatch"

\* C11: once a future of iteration j has resolved to an error, no "Task
\* complete" line exists, or is ever printed, for iteration j or a later one.
C11_ConsumerHalts ==
    \A j \in Iters :
        Failed(j) => \A k \in 1 .. Len(reported) : reported[k].iter < j

C11_Witness ==
    /\ consumerPc = "panicked"
    /\ Failed(1)
    /\ Len(reported) = 1

\* C12: a value mismatch in iteration j is not an enqueue-time failure: it
\* exists only once main has enqueued and spawned iteration j, main does not
\* fail on it (its send or join panics only after the completion thread has), and the
\* completion thread fails on a task no later than j, the one it holds.
C12_MismatchIsData ==
    \A j \in Iters :
        Mismatch(j) =>
            /\ j \in spawned
            /\ task_iter > j \/ driverPc \in {"send", "send_blocked", "panicked"}
            /\ abort[1] \in {"send", "join"} => consumerPc = "panicked"
            /\ (abort[1] = "send" /\ task_iter = j) => curTask < j
            /\ consumerPc = "panicked" => (Failed(curTask) /\ curTask <= j)

C12_Witness ==
    /\ Mismatch(1)
    /\ driverPc = "write_init"
    /\ task_iter = 2
    /\ consumerPc = "wait"
    /\ curTask = 1

\* C13: once a future has resolved to an error main never prints its final
\* line, and when the run has stopped main has panicked.
C13_NeverSucceeds ==
    (\E j \in Iters : Failed(j)) =>
        /\ driverPc # "done"
        /\ ~ENABLED Next => driverPc = "panicked"

C13_Witness ==
    /\ driverPc = "panicked"
    /\ consumerPc = "panicked"
    /\ \E j \in Iters : Mismatch(j)

Differing(data, cval) == {x \in Index : data[x] # cval}

\* C15: the step that ends Verify(i)'s scan examines the elements from index 0
\* upwards: with no differing element it examines all of them and resolves to
\* the element count (or to the error of the unmap that follows the scan);
\* otherwise it resolves to the mismatch of the lowest differing index, with
\* the value found there, and examines nothing after it.
C15_ScanInOrder ==
    [][\A i \in Iters :
          (verifySt[i] = "scanning" /\ verifySt'[i] # "scanning") =>
              LET D == Differing(dst_buf, CorrectVal) IN
              IF D = {}
              THEN /\ examined'[i] = WORK_SIZE
                   /\ verifyRes'[i] \in {Ok(WORK_SIZE), UnmapErr}
                   /\ verifyRes'[i] = UnmapErr <=> faults' = faults + 1
              ELSE LET m == CHOOSE x \in D : \A y \in D : x <= y IN
                   /\ verifyRes'[i] = MismatchErr(dst_buf[m], CorrectVal, m)
                   /\ examined'[i] = m + 1]_vars

C15_Witness ==
    /\ verifyRes[1] = MismatchErr(WriteVal, CorrectVal, WORK_SIZE - 1)
    /\ examined[1] = WORK_SIZE
    /\ verifyRes[0] = Ok(WORK_SIZE)

\* C16: Write-Init(i)'s closure runs only once Fill(i) is complete, and when it
\* has returned Ok every element of the input buffer holds the write value, the
\* unmap has been enqueued and the result is the iteration index.
C16_WriteAfterFill ==
    /\ \A i \in Iters : writeSt[i] # "waiting" => IsComplete(<<"Fill", i>>)
    /\ \A i \in Iters : Started(<<"WMap", i>>) => IsComplete(<<"Fill", i>>)
    /\ \A i \in Iters :
          writeSt[i] = "done" =>
              /\ status[<<"WUnmap", i>>] \notin {"unset", "created"}
              /\ writeRes[i] = Ok(i)
              /\ (i + 1 \notin Iters \/ ~Started(<<"Fill", i + 1>>)) =>
                     \A x \in Index : src_buf[x] = WriteVal /\ src_buf[x] # FillVal

C16_Witness ==
    /\ writeSt[1] = "done"
    /\ writeRes[1] = Ok(1)
    /\ status[<<"WUnmap", 1>>] = "queued"
    /\ \A x \in Index : src_buf[x] = WriteVal

\* C17: with no fault injected, every element Verify(i) scans equals the write
\* value plus the kernel addend, 150, and no iteration resolves to a mismatch.
C17_SumIsExpected ==
    faults = 0 =>
        /\ \A i \in Iters :
              verifySt[i] = "scanning" =>
                  \A x \in Index : /\ dst_buf[x] = WriteVal + SCALAR_ADDEND
                                   /\ dst_buf[x] = 150
        /\ \A i \in Iters : ~Mismatch(i)

C17_Witness ==
    /\ faults = 0
    /\ verifySt[1] = "scanning"
    /\ verifyRes[0] = Ok(WORK_SIZE)
    /\ \A x \in Index : dst_buf[x] = CorrectVal

\* main is inside one of the five stage calls or the join/spawn that follows.
InStage ==
    driverPc \in {"fill", "write_init", "verify_init", "kernel", "verify_add", "spawn"}

\* The completion thread has not ended and cannot take a step.
ConsumerBlocked == consumerPc \notin {"exited", "panicked"} /\ ~ENABLED Consumer

C19_TaskIsJoin ==
    /\ \A k \in 1 .. Len(reported) :
          /\ writeRes[reported[k].iter] = Ok(reported[k].iter)
          /\ verifyRes[reported[k].iter] = Ok(WORK_SIZE)
    /\ consumerPc = "panicked" =>
          \/ writeRes[curTask].kind = "err"
          \/ verifyRes[curTask].kind = "err"
    /\ (Alive /\ consumerPc = "wait" /\ Failed(curTask)) => ENABLED task_wait
    /\ (consumerPc = "wait" /\ ENABLED task_wait) =>
          \/ Failed(curTask)
          \/ writeRes[curTask].kind = "ok" /\ verifyRes[curTask].kind = "ok"

C19_Witness ==
    /\ Len(reported) = 2
    /\ reported[2].iter = 1
    /\ status[<<"RVI", 1>>] = "queued"

\* C20: the wait list kernel_add builds for iteration i, and gives the marker,
\* is exactly the write-unmap event of i plus, from i = 1, the verify-unmap
\* event of i - 1: at most 2 entries, none repeated, none older.
C20_KernelWaitListExact ==
    /\ \A i \in Iters :
          status[<<"Marker", i>>] # "unset" =>
              LET wl == waitList[<<"Marker", i>>] IN
              /\ SeqToSet(wl) = {<<"WUnmap", i>>} \cup
                                (IF i >= 1 THEN {<<"VUnmap", i - 1>>} ELSE {})
              /\ Len(wl) = Cardinality(SeqToSet(wl))
              /\ Len(wl) <= 2
    /\ kernel_event # None => kernel_wait_list = waitList[<<"Marker", kernel_event[2]>>]
    /\ Len(kernel_wait_list) <= 2

C20_Witness ==
    /\ kernel_event = <<"Kernel", 2>>
    /\ kernel_wait_list = <<<<"VUnmap", 1>>, <<"WUnmap", 2>>>>

\* C21: Verify(i)'s scan begins only once Kernel(i) is complete, and the map it
\* runs on waits on that event and no other.
C21_VerifyAfterKernel ==
    \A i \in Iters :
        /\ verifySt[i] # "waiting" => IsComplete(<<"Kernel", i>>)
        /\ IsComplete(<<"VMap", i>>) => IsComplete(<<"Kernel", i>>)
        /\ status[<<"VMap", i>>] # "unset" => waitList[<<"VMap", i>>] = << <<"Kernel", i>> >>

C21_Witness ==
    /\ verifySt[1] = "scanning"
    /\ status[<<"RVI", 1>>] = "queued"
    /\ status[<<"Fill", 2>>] = "queued"

\* Position of an event's state in Unset -> Pending -> Complete.
LifecycleRank(st) == IF st = "unset" THEN 0 ELSE IF st = "complete" THEN 2 ELSE 1

StageEvents(pc) ==
    IF pc = "fill" THEN {"Fill"}
    ELSE IF pc = "write_init" THEN {"WMap", "WUnmap"}
    ELSE IF pc = "verify_init" THEN {"RVI"}
    ELSE IF pc = "kernel" THEN {"Marker", "Kernel"}
    ELSE IF pc = "verify_add" THEN {"VMap", "VUnmap"}
    ELSE {}

\* C23: a stage call that returns has bound exactly its own events of the
\* current iteration, each of them unset until then, and no event is ever
\* enqueued a second time.
C23_FreshEventPerCall ==
    [][/\ (InStageCall /\ driverPc' \notin {driverPc, "panicked"}) =>
              LET changed == {e \in Events : status'[e] # status[e]} IN
              /\ changed = StageEvents(driverPc) \X {task_iter}
              /\ \A e \in changed : status[e] = "unset"
       /\ \A e \in Events :
              (status'[e] = "queued" /\ status[e] # "queued") =>
                  status[e] \in {"unset", "created"}]_vars

C23_Witness ==
    /\ driverPc = "write_init"
    /\ task_iter = 1
    /\ fill_event = <<"Fill", 1>>
    /\ status[<<"Fill", 1>>] = "queued"
    /\ status[<<"Fill", 0>>] = "running"

\* C24: every callback is registered on an event that is pending or complete,
\* and main never panics on a set_callback refused for an unbound event.
C24_CallbacksOnBoundEvents ==
    /\ abort[1] # "signal_not_bound"
    /\ \A c \in Callbacks :
          cbOn[c] # None => SignalState(cbOn[c]) \in {"Pending", "Complete"}

C24_Witness ==
    /\ cbOn[<<"fill_starting", 1>>] = <<"Kernel", 0>>
    /\ cbOn[<<"kernel_complete", 1>>] = <<"Kernel", 1>>
    /\ cbOn[<<"write_complete", 1>>] = <<"WUnmap", 1>>
    /\ status[<<"WUnmap", 1>>] = "created"
    /\ status[<<"Kernel", 1>>] = "queued"

LaterStages(pc) ==
    IF pc = "fill" THEN {"WMap", "WUnmap", "RVI", "Marker", "Kernel", "VMap", "VUnmap"}
    ELSE IF pc = "write_init" THEN {"RVI", "Marker", "Kernel", "VMap", "VUnmap"}
    ELSE IF pc = "verify_init" THEN {"Marker", "Kernel", "VMap", "VUnmap"}
    ELSE IF pc = "kernel" THEN {"VMap", "VUnmap"}
    ELSE {}

\* C26: once a runtime call of a stage function has failed main has panicked,
\* nothing of a later stage of that iteration or of a later iteration is
\* enqueued, and no task of that iteration is spawned or sent.
C26_AbortOnFailedCall ==
    abort[1] = "call_failed" =>
        /\ driverPc = "panicked"
        /\ \A s \in LaterStages(abort[2]) : status[<<s, task_iter>>] = "unset"
        /\ \A e \in Events : e[2] > task_iter => status[e] = "unset"
        /\ task_iter \notin spawned
        /\ task_iter \notin SeqToSet(chan)
        /\ curTask # task_iter

C26_Witness ==
    /\ abort = <<"call_failed", "kernel">>
    /\ task_iter = 1
    /\ status[<<"Marker", 1>>] = "queued"
    /\ status[<<"Kernel", 1>>] = "unset"
    /\ consumerPc = "wait"

\* C27: the number printed for a completed task is the iteration index its
\* mapped-write future resolved to.
C27_ReportedIndex ==
    \A k \in 1 .. Len(reported) :
        writeRes[reported[k].iter] = Ok(reported[k].n)

C27_Witness ==
    /\ Len(reported) = 2
    /\ reported[2].n = 1
    /\ writeRes[1] = Ok(1)

\* Tasks spawned on the pool and not yet reported complete.
InFlight == {i \in spawned : \A k \in 1 .. Len(reported) : reported[k].iter # i}

\* C28: at most MAX_CONCURRENT_TASK_COUNT tasks are spawned and not yet
\* reported: the one the completion thread holds, those in the channel and
\* the one main has spawned and is sending.
C28_InFlightBound ==
    /\ Cardinality(InFlight) <= MAX_CONCURRENT_TASK_COUNT
    /\ InFlight \subseteq
          {curTask} \cup SeqToSet(chan) \cup
          (IF driverPc \in {"send", "send_blocked", "panicked"} THEN {task_iter} ELSE {})

C28_Witness ==
    /\ Cardinality(InFlight) = MAX_CONCURRENT_TASK_COUNT
    /\ driverPc = "send_blocked"
    /\ consumerPc = "wait"

\* C29: the write-unmap event of iteration i is enqueued, let alone complete,
\* only when the write closure has written every element, so the kernel of
\* iteration i starts after the writes and no write runs while a kernel does.
C29_WriteUnmapAfterWrite ==
    \A i \in Iters :
        /\ status[<<"WUnmap", i>>] \in {"queued", "running", "complete"} =>
               writeSt[i] = "done"
        /\ Started(<<"Kernel", i>>) =>
               (writeSt[i] = "done" /\ IsComplete(<<"WUnmap", i>>))
        /\ Running(<<"Kernel", i>>) => \A j \in Iters : writeSt[j] # "writing"

C29_Witness ==
    /\ Running(<<"Kernel", 1>>)
    /\ writeSt[1] = "done"
    /\ \A x \in Index : src_buf[x] = WriteVal

\* C30: the verify-unmap event of iteration i is enqueued, let alone complete,
\* only when the scan has ended, so the kernel of iteration i + 1 starts after
\* the scan of iteration i.
C30_VerifyUnmapAfterScan ==
    \A i \in Iters :
        /\ status[<<"VUnmap", i>>] \in {"queued", "running", "complete"} =>
               verifySt[i] \in {"done", "err"}
        /\ (i + 1 \in Iters /\ Started(<<"Kernel", i + 1>>)) =>
               (verifySt[i] \in {"done", "err"} /\ IsComplete(<<"VUnmap", i>>))

C30_Witness ==
    /\ Running(<<"Kernel", 2>>)
    /\ verifySt[1] = "done"
    /\ verifyRes[1] = Ok(WORK_SIZE)

----------------------------------------------------------------------------
(* The verify-unmap event, overlap of iterations, the end of a failed run *)

\* The verify closure of iteration i has returned the element count or a
\* value mismatch.
VerifyResolved(i) == verifyRes[i].kind = "ok" \/ Mismatch(i)

VerifyEvents(i) == {<<"VMap", i>>, <<"VUnmap", i>>}

C33_VerifyScansInOrder ==
    \A i \in Iters :
        i + 1 \in Iters =>
            /\ verifySt[i + 1] # "waiting" => verifySt[i] \in {"done", "err"}
            /\ TaskOk(i + 1) => verifySt[i] \in {"done", "err"}

C33_Witness ==
    /\ verifySt[0] = "done"
    /\ verifySt[1] = "scanning"
    /\ writeSt[1] = "done"

\* C34: once the completion thread has stopped on the failed task of
\* iteration j, no command of iteration j + MAX_CONCURRENT_TASK_COUNT or of a
\* later one has been, or is ever, enqueued.
C34_BoundedWorkAfterError ==
    \A j \in Iters :
        (consumerPc = "panicked" /\ curTask = j /\ TaskErr(j)) =>
            \A e \in Events :
                e[2] >= j + MAX_CONCURRENT_TASK_COUNT => status[e] = "unset"

C34_Witness ==
    /\ consumerPc = "panicked"
    /\ curTask = 0
    /\ abort = <<"send", "send">>
    /\ task_iter = 1
    /\ status[<<"VMap", 1>>] = "queued"

\* main is in tx.send, of a task or of None.
InSend == driverPc \in {"send", "send_blocked", "send_none", "send_none_blocked"}

\* C35: once the completion thread has panicked on a failed task, a send main
\* is in or comes to does not wait: it returns the disconnection error and
\* main panics on it; and main does panic in the end.
C35_DriverFailsOnClosedQueue ==
    /\ [][(consumerPc = "panicked" /\ InSend /\ driverPc' # driverPc)
              => (driverPc' = "panicked" /\ abort' = <<"send", driverPc>>)]_vars
    /\ (consumerPc = "panicked") ~> (driverPc = "panicked")

C35_Witness ==
    /\ consumerPc = "panicked"
    /\ abort = <<"send", "send_none_blocked">>
    /\ driverPc = "panicked"

\* The event the previous iteration left in a slot: none before iteration 0.
PrevEvent(stage, it) == IF it = 0 THEN None ELSE <<stage, it - 1>>

\* C36: when main begins iteration i the kernel_event slot holds the event of
\* Kernel(i-1) and the verify_add_unmap_event slot that of Verify-unmap(i-1)
\* (both None for i = 0); the kernel slot holds Kernel(i) only once Fill(i) and
\* the verify-init read of iteration i are enqueued waiting on Kernel(i-1), and
\* the unmap slot holds Verify-unmap(i) only once the marker of Kernel(i) is
\* enqueued waiting on Verify-unmap(i-1).
C36_SlotsHoldPrevious ==
    /\ driverPc = "fill" =>
           /\ kernel_event = PrevEvent("Kernel", task_iter)
           /\ verify_add_unmap_event = PrevEvent("VUnmap", task_iter)
    /\ \A i \in Iters \ {0} :
           /\ kernel_event = <<"Kernel", i>> =>
                  /\ status[<<"Fill", i>>] # "unset"
                  /\ waitList[<<"Fill", i>>] = << <<"Kernel", i - 1>> >>
                  /\ status[<<"RVI", i>>] # "unset"
                  /\ waitList[<<"RVI", i>>] = << <<"Kernel", i - 1>> >>
           /\ verify_add_unmap_event = <<"VUnmap", i>> =>
                  /\ status[<<"Marker", i>>] # "unset"
                  /\ <<"VUnmap", i - 1>> \in SeqToSet(waitList[<<"Marker", i>>])

C36_Witness ==
    /\ driverPc = "fill"
    /\ task_iter = 2
    /\ kernel_event = <<"Kernel", 1>>
    /\ verify_add_unmap_event = <<"VUnmap", 1>>

----------------------------------------------------------------------------
(* raw/functions.rs *)

\* C37: errcode_try returns Ok exactly when errcode is 0 and otherwise an
\* error that carries the errcode; errcode_assert panics exactly when
\* errcode_try returns an error for the same arguments.
C37_ErrcodeTry ==
    /\ call.fn = "errcode_try" =>
           /\ call.ret.kind = "ok" <=> call.errcode = 0
           /\ call.errcode # 0 => (call.ret.kind = "err" /\ call.ret.code = call.errcode)
    /\ call.fn = "errcode_assert" =>
           /\ call.ret.kind \in {"panic", "returned"}
           /\ call.ret.kind = "panic" <=>
                  errcode_try(call.message, call.errcode).kind = "err"
           /\ call.ret.kind = "panic" <=> call.errcode # 0

C37_Witness ==
    /\ call.fn = "errcode_assert"
    /\ call.errcode > 0
    /\ call.ret.kind = "panic"
    /\ call.ret.err.code = call.errcode

\* C38: resolve_event_opts returns Ok always; its length and pointer are
\* 0 and null for an absent and for an empty wait list, the length and a
\* non-null pointer for a non-empty one; its new-event pointer is null for an
\* absent slot and non-null for a present one.
C38_ResolveEventOpts ==
    call.fn = "resolve_event_opts" =>
        LET wl == call.wait_list
            ne == call.new_event
            r == call.ret IN
        /\ r.kind = "ok"
        /\ (~wl.some \/ Len(wl.val.items) = 0) => (r.val[1] = 0 /\ r.val[2] = NullPtr)
        /\ (wl.some /\ Len(wl.val.items) > 0) =>
               (r.val[1] = Len(wl.val.items) /\ r.val[2] # NullPtr)
        /\ ~ne.some => r.val[3] = NullPtr
        /\ ne.some => r.val[3] # NullPtr

C38_Witness ==
    /\ call.fn = "resolve_event_opts"
    /\ call.wait_list.some
    /\ Len(call.wait_list.val.items) = 0
    /\ call.new_event.some
    /\ call.ret = Ok(<<0, NullPtr, call.new_event.val>>)

====
